---- MODULE Spec2Model ----
(***************************************************************************)
(* A model of plex_nfo_creator.py: the identifier extractor (get_ids), the *)
(* local path resolver (get_local_path), the marker file writer            *)
(* (create_nfo_file) and the batch loop (process_library).                 *)
(*                                                                         *)
(* Strings are sequences of tokens.  Catalog annotations and raw field     *)
(* values are sequences over AnnTokens (a scheme prefix, "?", "tt", a      *)
(* digit); file and folder names are sequences of single characters.       *)
(***************************************************************************)
EXTENDS Integers, Sequences, FiniteSets, TLC

VARIABLES
    \* ---- get_ids, one call, stepped through its two loops
    gpc,          \* "primary" | "trigger" | "secondary" | "done"
    ids,          \* the dict ids: [imdb, tmdb, tvdb], each NoneId or a token sequence
    method,       \* method_used
    nGuids,       \* annotations of item.guids scanned so far
    nFields,      \* entries of item.fields scanned so far
    primaryIds,   \* history: ids as the primary scan left them
    consulted,    \* history: item.fields has been read
    firstSeen,    \* history: per scheme, the value of the first matching annotation
    raised,       \* history: an exception reached get_ids' except clause
    \* ---- shared by the resolver, the writer and the batch loop
    kind,         \* item_type / library_type: "movie" | "tv"
    isWindows,    \* platform.system() == 'Windows'
    listRev,      \* the order in which the host lists a directory
    fs,           \* the filesystem: a set of nodes
    dry_run,
    \* ---- get_local_path / create_nfo_file, one call
    npc,          \* "start" | "resolved" | "done"
    plexPath,     \* plex_path as recorded by the catalog
    inIds,        \* the ids handed to create_nfo_file
    res,          \* what get_local_path returned
    nfo,          \* what create_nfo_file did
    \* ---- process_library
    pc,           \* "loop" | "done" | "aborted"
    stats,        \* the five counters
    handled,      \* items taken from the list so far
    last          \* history: the item handled last and what happened to it

idsVars  == <<gpc, ids, method, nGuids, nFields, primaryIds, consulted, firstSeen, raised>>
envVars  == <<kind, isWindows, listRev, fs, dry_run>>
nfoVars  == <<npc, plexPath, inIds, res, nfo>>
libVars  == <<pc, stats, handled, last>>
vars     == <<idsVars, envVars, nfoVars, libVars>>

\* ------------------------------------------------------------------ bounds
MaxAnnLen == 2     \* tokens in one annotation or raw field value
MaxGuids  == 2     \* annotations per item
MaxFields == 2     \* raw fields per item

\* ------------------------------------------------------- token strings
Kinds == {"movie", "tv"}

AnnTokens == {"imdb://", "IMDB://", "tmdb://", "tvdb://", "?", "tt", "1"}
Digits    == {"1"}

\* str.lower() on one token
LowerTok(t) == IF t = "IMDB://" THEN "imdb://" ELSE t

\* str.lower()
Lower(s) == [i \in DOMAIN s |-> LowerTok(s[i])]

\* tok in s
Contains(s, tok) == \E i \in DOMAIN s : s[i] = tok

\* index of the first occurrence of tok in s at or after position from; 0 if none
IndexFrom(s, tok, from) ==
    IF \E i \in from..Len(s) : s[i] = tok
    THEN CHOOSE i \in from..Len(s) : s[i] = tok /\ \A j \in from..(i-1) : s[j] # tok
    ELSE 0

\* s.split(tok)[0]
SplitHead(s, tok) ==
    LET i == IndexFrom(s, tok, 1)
    IN  IF i = 0 THEN s ELSE SubSeq(s, 1, i - 1)

\* s.split(tok)[1], for s that contains tok: what lies between the first
\* occurrence of tok and the next one (or the end)
SplitSecond(s, tok) ==
    LET i == IndexFrom(s, tok, 1)
        j == IndexFrom(s, tok, i + 1)
    IN  IF j = 0 THEN SubSeq(s, i + 1, Len(s)) ELSE SubSeq(s, i + 1, j - 1)

\* the longest run of digits of s that starts at position i
DigitRun(s, i) ==
    LET stop == IF \E j \in i..Len(s) : s[j] \notin Digits
                THEN CHOOSE j \in i..Len(s) :
                        s[j] \notin Digits /\ \A k \in i..(j-1) : s[k] \in Digits
                ELSE Len(s) + 1
    IN  SubSeq(s, i, stop - 1)

\* positions where tok is followed by at least one digit
MatchAt(s, tok) == {i \in 1..(Len(s) - 1) : s[i] = tok /\ s[i+1] \in Digits}

NoMatch == <<"no match">>

\* re.search(tok + r'(\d+)', s).group(1): the digits after the leftmost match
SearchDigits(s, tok) ==
    IF MatchAt(s, tok) = {} THEN NoMatch
    ELSE LET i == CHOOSE k \in MatchAt(s, tok) : \A m \in MatchAt(s, tok) : k <= m
         IN  DigitRun(s, i + 1)

\* re.search(r'(tt\d+)', s).group(1)
SearchImdb(s) ==
    IF SearchDigits(s, "tt") = NoMatch THEN NoMatch
    ELSE <<"tt">> \o SearchDigits(s, "tt")

\* ------------------------------------------------------------- get_ids
NoneId   == <<"None">>
EmptyIds == [imdb |-> NoneId, tmdb |-> NoneId, tvdb |-> NoneId]
Schemes  == {"imdb", "tmdb", "tvdb"}

\* Python truth of ids[...]: neither None nor the empty string
Truthy(v) == v # NoneId /\ v # <<>>

Prefix(scheme) == CASE scheme = "imdb" -> "imdb://"
                    [] scheme = "tmdb" -> "tmdb://"
                    [] scheme = "tvdb" -> "tvdb://"

\* which branch of the if/elif chain a lowered annotation takes
SchemeOf(g, k) ==
    IF Contains(g, "imdb://") THEN "imdb"
    ELSE IF Contains(g, "tmdb://") /\ k = "movie" THEN "tmdb"
    ELSE IF Contains(g, "tvdb://") /\ k = "tv" THEN "tvdb"
    ELSE "none"

\* guid_id.split('<scheme>://')[1].split('?')[0]
ValueOf(g, scheme) == SplitHead(SplitSecond(g, Prefix(scheme)), "?")

\* one pass of the loop over item.guids
ScanGuid(d, id, k) ==
    LET g == Lower(id)
        s == SchemeOf(g, k)
    IN  IF s = "none" THEN d ELSE [d EXCEPT ![s] = ValueOf(g, s)]

\* a faulty variant of NeedSecondary that looks at imdb alone
NeedSecondaryImdbOnly(d, k) == ~Truthy(d.imdb)

\* the condition that switches to the secondary method
NeedSecondary(d, k) ==
    ~(Truthy(d.imdb) \/ (Truthy(d.tmdb) /\ k = "movie") \/ (Truthy(d.tvdb) /\ k = "tv"))

\* one pass of the loop over item.fields, for a field whose value is a string
ScanField(d, f, k) ==
    IF f.name # "guid" THEN d
    ELSE
      LET value == Lower(f.value)
          d1 == IF ~Truthy(d.imdb) /\ SearchImdb(value) # NoMatch
                THEN [d EXCEPT !.imdb = SearchImdb(value)] ELSE d
          d2 == IF ~Truthy(d1.tmdb) /\ k = "movie" /\ SearchDigits(value, "tmdb://") # NoMatch
                THEN [d1 EXCEPT !.tmdb = SearchDigits(value, "tmdb://")] ELSE d1
          d3 == IF ~Truthy(d2.tvdb) /\ k = "tv" /\ SearchDigits(value, "tvdb://") # NoMatch
                THEN [d2 EXCEPT !.tvdb = SearchDigits(value, "tvdb://")] ELSE d2
      IN  d3

\* A guid whose id cannot be lowered (None) and a field whose value cannot be
\* lowered raise inside the try block; bad marks them.
RECURSIVE PrimaryScan(_, _, _, _)
PrimaryScan(d, guids, i, k) ==
    IF i > Len(guids) THEN [ids |-> d, raised |-> FALSE]
    ELSE IF guids[i].bad THEN [ids |-> d, raised |-> TRUE]
    ELSE PrimaryScan(ScanGuid(d, guids[i].id, k), guids, i + 1, k)

RECURSIVE SecondaryScan(_, _, _, _)
SecondaryScan(d, fields, i, k) ==
    IF i > Len(fields) THEN [ids |-> d, raised |-> FALSE]
    ELSE IF fields[i].name = "guid" /\ fields[i].bad THEN [ids |-> d, raised |-> TRUE]
    ELSE SecondaryScan(ScanField(d, fields[i], k), fields, i + 1, k)

\* get_ids(item, item_type): (ids, method_used); raised tells the except clause ran
GetIds(item, k) ==
    LET p == PrimaryScan(EmptyIds, item.guids, 1, k)
    IN  IF p.raised THEN [ids |-> p.ids, method |-> "primary", raised |-> TRUE]
        ELSE IF NeedSecondary(p.ids, k)
             THEN LET s == SecondaryScan(p.ids, item.fields, 1, k)
                  IN  [ids |-> s.ids, method |-> "secondary", raised |-> s.raised]
             ELSE [ids |-> p.ids, method |-> "primary", raised |-> FALSE]

\* ---- the inputs of get_ids
SeqsUpTo(S, n) == UNION {[1..m -> S] : m \in 0..n}

AnnSet     == SeqsUpTo(AnnTokens, MaxAnnLen)
FieldNames == {"guid", "summary"}
FieldSet   == [name : FieldNames, value : AnnSet, bad : {FALSE}]
BadField   == [name |-> "guid", value |-> <<>>, bad |-> TRUE]

\* ------------------------------------------------------ names and paths
MaxRep == 3     \* longest run of a repeated character appended to a folder name

\* str.lower() on one character of a file or folder name
LowerChar(c) == CASE c = "A" -> "a"
                  [] c = "F" -> "f"
                  [] c = "M" -> "m"
                  [] OTHER   -> c

\* str.lower() on a name
LowerName(n) == [i \in DOMAIN n |-> LowerChar(n[i])]

\* str.lower() on a drive
LowerDrive(d) == IF d = "Y:" THEN "y:" ELSE IF d = "C:" THEN "c:" ELSE d

\* unicodedata.normalize('NFC', text): "n" followed by the combining tilde "~"
\* composes to the single character written "n~" here
RECURSIVE Nfc(_)
Nfc(n) ==
    IF Len(n) < 2 THEN n
    ELSE IF n[1] = "n" /\ n[2] = "~" THEN <<"n~">> \o Nfc(SubSeq(n, 3, Len(n)))
    ELSE <<n[1]>> \o Nfc(Tail(n))

Dot    == <<".">>
DotDot == <<".", ".">>

\* os.path.normpath on the components of an absolute path
RECURSIVE NormComps(_, _)
NormComps(done, rest) ==
    IF rest = <<>> THEN done
    ELSE IF Head(rest) = Dot THEN NormComps(done, Tail(rest))
    ELSE IF Head(rest) = DotDot
         THEN NormComps(IF done = <<>> THEN done ELSE SubSeq(done, 1, Len(done) - 1), Tail(rest))
    ELSE NormComps(Append(done, Head(rest)), Tail(rest))

\* normalize_path(normalize_unicode(path)) for an absolute path of the host
NormalizePath(p) ==
    [drive |-> p.drive, comps |-> NormComps(<<>>, [i \in DOMAIN p.comps |-> Nfc(p.comps[i])])]

NoPath == [drive |-> "none", comps |-> <<>>]
UNC    == "\\\\srv\\share"

Join(p, name) == [p EXCEPT !.comps = Append(@, name)]
Basename(p)   == IF p.comps = <<>> THEN <<>> ELSE p.comps[Len(p.comps)]
Dirname(p)    == IF p.comps = <<>> THEN p ELSE [p EXCEPT !.comps = SubSeq(@, 1, Len(@) - 1)]

\* os.path.splitext(name)[0]: cut at the last dot, unless only dots precede it
Stem(n) ==
    LET dots == {i \in DOMAIN n : n[i] = "."}
    IN  IF dots = {} THEN n
        ELSE LET d == CHOOSE i \in dots : \A j \in dots : j <= i
             IN  IF \E j \in 1..(d - 1) : n[j] # "." THEN SubSeq(n, 1, d - 1) ELSE n

\* ------------------------------------------------------- the filesystem
\* A node is [drive, comps, dir, writable, content]; writable is what
\* os.access(dir, os.W_OK) answers, content what a file holds.

\* whether two paths name the same node on the host (Windows folds case)
SamePath(a, b) ==
    IF isWindows
    THEN /\ LowerDrive(a.drive) = LowerDrive(b.drive)
         /\ Len(a.comps) = Len(b.comps)
         /\ \A i \in DOMAIN a.comps : LowerName(a.comps[i]) = LowerName(b.comps[i])
    ELSE a.drive = b.drive /\ a.comps = b.comps

PathOf(node) == [drive |-> node.drive, comps |-> node.comps]

NodesAt(f, p) == {n \in f : SamePath(PathOf(n), p)}

\* os.path.exists / isdir / isfile / os.access(p, os.W_OK)
Exists(f, p)   == NodesAt(f, p) # {}
IsDir(f, p)    == \E n \in NodesAt(f, p) : n.dir
IsFile(f, p)   == \E n \in NodesAt(f, p) : ~n.dir
CanWrite(f, p) == \E n \in NodesAt(f, p) : n.writable

\* the nodes directly inside directory p
ChildrenOf(f, p) ==
    {n \in f : Len(n.comps) = Len(p.comps) + 1 /\ SamePath(Dirname(PathOf(n)), p)}
\* ---- directory listings.  The host lists a directory in an order of its
\* own; here it is the lexicographic order of the names, or its reverse.
CharOrder == <<".", "~", "A", "F", "M", "a", "b", "c", "d", "e", "f", "g", "h", "i",
               "l", "m", "n", "n~", "o", "s", "t", "v", "w", "x", "y">>

CharRank(c) == CHOOSE i \in DOMAIN CharOrder : CharOrder[i] = c

RECURSIVE LexLess(_, _)
LexLess(a, b) ==
    IF b = <<>> THEN FALSE
    ELSE IF a = <<>> THEN TRUE
    ELSE IF Head(a) = Head(b) THEN LexLess(Tail(a), Tail(b))
    ELSE CharRank(Head(a)) < CharRank(Head(b))

ListedBefore(a, b) == IF listRev THEN LexLess(b, a) ELSE LexLess(a, b)

RECURSIVE Listing(_)
Listing(names) ==
    IF names = {} THEN <<>>
    ELSE LET first == CHOOSE n \in names : \A m \in names \ {n} : ListedBefore(n, m)
         IN  <<first>> \o Listing(names \ {first})

\* os.listdir(p), and the dirs and files os.walk reports for p
ListAll(f, p)   == Listing({Basename(PathOf(n)) : n \in ChildrenOf(f, p)})
ListDirs(f, p)  == Listing({Basename(PathOf(n)) : n \in {c \in ChildrenOf(f, p) : c.dir}})
ListFiles(f, p) == Listing({Basename(PathOf(n)) : n \in {c \in ChildrenOf(f, p) : ~c.dir}})

\* os.walk(top), top-down: the directories in the order they are yielded
RECURSIVE Walk(_, _)
RECURSIVE WalkEach(_, _, _, _)
WalkEach(f, p, names, i) ==
    IF i > Len(names) THEN <<>>
    ELSE Walk(f, Join(p, names[i])) \o WalkEach(f, p, names, i + 1)

Walk(f, top) == <<top>> \o WalkEach(f, top, ListDirs(f, top), 1)

\* the first element of seq for which Hit yields a path, as a loop that returns
\* from inside its body
FirstHit(seq, Hit(_)) ==
    LET idx == {i \in DOMAIN seq : Hit(seq[i]) # NoPath}
    IN  IF idx = {} THEN NoPath
        ELSE Hit(seq[CHOOSE i \in idx : \A j \in idx : i <= j])
\* ------------------------------------------------------- get_local_path
ThresholdNum == 7
ThresholdDen == 10

\* step 1: a network path that exists is used as it is
StepUNC(f, plex) ==
    IF plex.drive = UNC /\ Exists(f, plex) THEN plex ELSE NoPath

\* the recorded path with the root's drive in place of its own
Remapped(plex, root) == [drive |-> root.drive, comps |-> plex.comps]

\* step 2: drive letter mapping, on Windows, when the drives differ
StepDrive(f, plex, root) ==
    IF /\ isWindows
       /\ LowerDrive(plex.drive) # LowerDrive(root.drive)
       /\ plex.drive # ""
       /\ Exists(f, Remapped(plex, root))
    THEN Remapped(plex, root) ELSE NoPath

\* the movie folder search in one directory d of the walk
MovieSearchAt(f, d, folder, filename) ==
    IF isWindows
    THEN LET matching == SelectSeq(ListDirs(f, d), LAMBDA n : LowerName(n) = LowerName(folder))
         IN  IF matching = <<>> THEN NoPath
             ELSE LET folder_path == Join(d, matching[1])
                      same == SelectSeq(ListAll(f, folder_path),
                                        LAMBDA n : LowerName(n) = LowerName(filename))
                  IN  IF Exists(f, Join(folder_path, filename)) THEN Join(folder_path, filename)
                      ELSE IF same # <<>> THEN Join(folder_path, same[1])
                      ELSE NoPath
    ELSE IF /\ \E i \in DOMAIN ListDirs(f, d) : ListDirs(f, d)[i] = folder
            /\ Exists(f, Join(Join(d, folder), filename))
         THEN Join(Join(d, folder), filename)
         ELSE NoPath

\* the show folder search in one directory d of the walk
ShowSearchAt(f, d, show) ==
    IF isWindows
    THEN LET matching == SelectSeq(ListDirs(f, d), LAMBDA n : LowerName(n) = LowerName(show))
         IN  IF matching = <<>> THEN NoPath ELSE Join(d, matching[1])
    ELSE IF \E i \in DOMAIN ListDirs(f, d) : ListDirs(f, d)[i] = show
         THEN Join(d, show) ELSE NoPath

\* step 3: the structured search, by kind
StepSearch(f, plex, root, k) ==
    IF k = "movie"
    THEN FirstHit(Walk(f, root),
                  LAMBDA d : MovieSearchAt(f, d, Nfc(Basename(Dirname(plex))), Nfc(Basename(plex))))
    ELSE FirstHit(Walk(f, root), LAMBDA d : ShowSearchAt(f, d, Nfc(Basename(plex))))

\* the file name search in one directory d of the walk
StemSearchAt(f, d, stem) ==
    LET same == SelectSeq(ListFiles(f, d),
                          LAMBDA n : IF isWindows THEN LowerName(Stem(n)) = LowerName(stem)
                                                  ELSE Stem(n) = stem)
    IN  IF same = <<>> THEN NoPath ELSE Join(d, same[1])

\* step 4 for movies: the file name alone, anywhere under the root
StepFallback(f, plex, root) ==
    FirstHit(Walk(f, root), LAMBDA d : StemSearchAt(f, d, Stem(Nfc(Basename(plex)))))

\* a in b
IsSubstr(a, b) == \E i \in 0..(Len(b) - Len(a)) : SubSeq(b, i + 1, i + Len(a)) = a

\* set(s)
CharSet(s) == {s[i] : i \in DOMAIN s}

MaxOf(x, y) == IF x >= y THEN x ELSE y

\* a faulty variant of Score that divides by the longer name's number of distinct characters
ScoreBySetSize(a, b) ==
    [num |-> Cardinality(CharSet(a) \cap CharSet(b)),
     den |-> IF Len(a) >= Len(b) THEN Cardinality(CharSet(a)) ELSE Cardinality(CharSet(b))]

\* len(set(a) & set(b)) / max(len(a), len(b)), as a fraction
Score(a, b) ==
    [num |-> Cardinality(CharSet(a) \cap CharSet(b)), den |-> MaxOf(Len(a), Len(b))]

\* x > y for two fractions with positive denominators
Greater(x, y) == x.num * y.den > y.num * x.den

\* a faulty variant of AboveThreshold that accepts the threshold itself
AtOrAboveThreshold(x) == x.num * ThresholdDen >= ThresholdNum * x.den

\* best_match_score > 0.7
AboveThreshold(x) == x.num * ThresholdDen > ThresholdNum * x.den

\* every (root, dir_name) pair of the walk, joined, in the order the loops visit them
RECURSIVE WalkDirs(_, _, _)
WalkDirs(f, walk, i) ==
    IF i > Len(walk) THEN <<>>
    ELSE LET names == ListDirs(f, walk[i])
         IN  [j \in DOMAIN names |-> Join(walk[i], names[j])] \o WalkDirs(f, walk, i + 1)

\* the name as the partial match compares it
FuzzyName(n) == IF isWindows THEN LowerName(n) ELSE n

\* the partial matching loop: scored lists each candidate that passed the
\* substring test with its score, best and path are best_match_score and best_match
RECURSIVE FuzzyScan(_, _, _, _)
FuzzyScan(cands, i, show, acc) ==
    IF i > Len(cands) THEN acc
    ELSE LET a == FuzzyName(show)
             b == FuzzyName(Basename(cands[i]))
         IN  IF IsSubstr(a, b) \/ IsSubstr(b, a)
             THEN LET sc == Score(a, b)
                      seen == Append(acc.scored, [path |-> cands[i], score |-> sc])
                  IN  IF Greater(sc, acc.best)
                      THEN FuzzyScan(cands, i + 1, show,
                                     [tried |-> TRUE, scored |-> seen, best |-> sc, path |-> cands[i]])
                      ELSE FuzzyScan(cands, i + 1, show, [acc EXCEPT !.scored = seen])
             ELSE FuzzyScan(cands, i + 1, show, acc)

ZeroScore == [num |-> 0, den |-> 1]

Fuzzy(f, plex, root) ==
    FuzzyScan(WalkDirs(f, Walk(f, root), 1), 1, Nfc(Basename(plex)),
              [tried |-> TRUE, scored |-> <<>>, best |-> ZeroScore, path |-> NoPath])

\* step 4 for shows: the best partial match z, if it is good enough
StepFuzzy(z) == IF AboveThreshold(z.best) THEN z.path ELSE NoPath

\* step 5: the root's drive in place of the recorded one, on Windows
StepLast(f, plex, root) ==
    IF isWindows /\ Exists(f, Remapped(plex, root)) THEN Remapped(plex, root) ELSE NoPath
NoFuzzy == [tried |-> FALSE, scored |-> <<>>, best |-> ZeroScore, path |-> NoPath]

Found(step, path, fz) == [step |-> step, path |-> path, fuzzy |-> fz]

\* a faulty variant of KindSteps that tries the partial match before the exact search
KindStepsFuzzyFirst(f, plex, root, k) ==
    LET search == StepSearch(f, plex, root, k)
        byname == StepFallback(f, plex, root)
        fz     == Fuzzy(f, plex, root)
    IN  IF k = "movie"
        THEN IF search # NoPath THEN Found("search", search, NoFuzzy)
             ELSE IF byname # NoPath THEN Found("fallback", byname, NoFuzzy)
             ELSE Found("none", NoPath, NoFuzzy)
        ELSE IF StepFuzzy(fz) # NoPath THEN Found("fuzzy", StepFuzzy(fz), fz)
             ELSE IF search # NoPath THEN Found("search", search, fz)
             ELSE Found("none", NoPath, fz)

\* the kind-dependent branch: the structured search, then the file name search
\* (movies) or the partial match (shows)
KindSteps(f, plex, root, k) ==
    LET search == StepSearch(f, plex, root, k)
        byname == StepFallback(f, plex, root)
        fz     == Fuzzy(f, plex, root)
    IN  IF search # NoPath THEN Found("search", search, NoFuzzy)
        ELSE IF k = "movie"
             THEN IF byname # NoPath THEN Found("fallback", byname, NoFuzzy)
                  ELSE Found("none", NoPath, NoFuzzy)
             ELSE IF StepFuzzy(fz) # NoPath THEN Found("fuzzy", StepFuzzy(fz), fz)
                  ELSE Found("none", NoPath, fz)

\* a faulty variant of GetLocalPath that gives the root back when nothing matched
GetLocalPathOrRoot(f, plex_path, root_path, k) ==
    LET plex  == NormalizePath(plex_path)
        root  == NormalizePath(root_path)
        unc   == StepUNC(f, plex)
        drive == StepDrive(f, plex, root)
        ks    == KindSteps(f, plex, root, k)
        lastr == StepLast(f, plex, root)
    IN  IF unc # NoPath THEN Found("unc", unc, NoFuzzy)
        ELSE IF drive # NoPath THEN Found("drive", drive, NoFuzzy)
        ELSE IF ks.step # "none" THEN ks
        ELSE IF lastr # NoPath THEN Found("lastresort", lastr, ks.fuzzy)
        ELSE Found("unresolved", root, ks.fuzzy)

\* get_local_path(plex_path, root_path, item_type): path is what it returns;
\* step names the return statement taken, tried and fuzzy record the partial match
GetLocalPath(f, plex_path, root_path, k) ==
    LET plex  == NormalizePath(plex_path)
        root  == NormalizePath(root_path)
        unc   == StepUNC(f, plex)
        drive == StepDrive(f, plex, root)
        ks    == KindSteps(f, plex, root, k)
        lastr == StepLast(f, plex, root)
    IN  IF unc # NoPath THEN Found("unc", unc, NoFuzzy)
        ELSE IF drive # NoPath THEN Found("drive", drive, NoFuzzy)
        ELSE IF ks.step # "none" THEN ks
        ELSE IF lastr # NoPath THEN Found("lastresort", lastr, ks.fuzzy)
        ELSE Found("unresolved", plex, ks.fuzzy)

\* ------------------------------------------------------ create_nfo_file
Tvshow == <<"t", "v", "s", "h", "o", "w", ".", "n", "f", "o">>
NfoExt == <<".", "n", "f", "o">>

ImdbUrl(id) == <<"https://www.imdb.com/title/">> \o id \o <<"/">>
TvdbUrl(id) == <<"https://thetvdb.com/series/">> \o id
TmdbUrl(id) == <<"https://www.themoviedb.org/movie/">> \o id

NoContent == <<"no content">>

\* a faulty variant of Content that prefers the kind's own identifier to imdb
ContentKindFirst(d, k) ==
    IF k = "tv"
    THEN IF Truthy(d.tvdb) THEN TvdbUrl(d.tvdb)
         ELSE IF Truthy(d.imdb) THEN ImdbUrl(d.imdb) ELSE NoContent
    ELSE IF Truthy(d.tmdb) THEN TmdbUrl(d.tmdb)
         ELSE IF Truthy(d.imdb) THEN ImdbUrl(d.imdb) ELSE NoContent

\* the if/elif/else that picks the content; NoContent is the else branch
Content(d, k) ==
    IF k = "tv"
    THEN IF Truthy(d.imdb) THEN ImdbUrl(d.imdb)
         ELSE IF Truthy(d.tvdb) THEN TvdbUrl(d.tvdb) ELSE NoContent
    ELSE IF Truthy(d.imdb) THEN ImdbUrl(d.imdb)
         ELSE IF Truthy(d.tmdb) THEN TmdbUrl(d.tmdb) ELSE NoContent

\* nfo_path for a local path that passed the kind check
NfoPath(local, k) ==
    IF k = "tv" THEN Join(local, Tvshow)
    ELSE Join(Dirname(local), Stem(Basename(local)) \o NfoExt)

\* the directory whose write permission is checked
NfoDir(local, k) == IF k = "tv" THEN local ELSE Dirname(local)

\* open(nfo_path, "w") followed by f.write(content)
WriteFile(f, p, content) ==
    IF IsFile(f, p)
    THEN {IF SamePath(PathOf(n), p) THEN [n EXCEPT !.content = content] ELSE n : n \in f}
    ELSE f \cup {[drive |-> p.drive, comps |-> p.comps, dir |-> FALSE,
                  writable |-> TRUE, content |-> content]}

Faults == {"none", "resolve", "open", "write"}

\* what one call did: ok is the value returned, fs the filesystem it leaves,
\* reached tells that every check passed (the dry-run test was executed)
Outcome(ok, f, why, local, reached, k, d) ==
    [ok |-> ok, fs |-> f, why |-> why, local |-> local, reached |-> reached,
     nfo_path |-> IF reached THEN NfoPath(local, k) ELSE NoPath,
     content  |-> IF reached THEN Content(d, k) ELSE NoContent]

\* a faulty variant of WriteOrSimulate that writes in a dry run too
WriteAlways(f, local, d, k, dry, fault) ==
    IF fault = "open" \/ IsDir(f, NfoPath(local, k))
    THEN Outcome(FALSE, f, "exception", local, TRUE, k, d)
    ELSE IF fault = "write"
    THEN Outcome(FALSE, WriteFile(f, NfoPath(local, k), <<>>), "exception", local, TRUE, k, d)
    ELSE Outcome(TRUE, WriteFile(f, NfoPath(local, k), Content(d, k)), "written", local, TRUE, k, d)

\* the end of create_nfo_file, once every check has passed: the dry run
\* returns, a real run opens and writes.  An exception named by fault is raised
\* by open(), or by f.write() after open() has created or truncated the file;
\* open() also fails on a directory.
WriteOrSimulate(f, local, d, k, dry, fault) ==
    IF dry THEN Outcome(TRUE, f, "dry run", local, TRUE, k, d)
    ELSE IF fault = "open" \/ IsDir(f, NfoPath(local, k))
    THEN Outcome(FALSE, f, "exception", local, TRUE, k, d)
    ELSE IF fault = "write"
    THEN Outcome(FALSE, WriteFile(f, NfoPath(local, k), <<>>), "exception", local, TRUE, k, d)
    ELSE Outcome(TRUE, WriteFile(f, NfoPath(local, k), Content(d, k)), "written", local, TRUE, k, d)

\* the checks of create_nfo_file on the local path, in the order they are
\* made: the first one that fails, or "passed"
Checks(f, local, d, k) ==
    IF ~Exists(f, local) THEN "missing"
    ELSE IF k = "tv" /\ ~IsDir(f, local) THEN "not a directory"
    ELSE IF k # "tv" /\ ~IsFile(f, local) THEN "not a file"
    ELSE IF ~CanWrite(f, NfoDir(local, k)) THEN "not writable"
    ELSE IF Content(d, k) = NoContent THEN "no id"
    ELSE "passed"

\* the body of create_nfo_file from the result r of its call of get_local_path
\* on; fault = "resolve" is an exception raised inside that call
CreateNfoFileAt(f, r, d, k, dry, fault) ==
    IF fault = "resolve" THEN Outcome(FALSE, f, "exception", NoPath, FALSE, k, d)
    ELSE IF Checks(f, r.path, d, k) # "passed"
    THEN Outcome(FALSE, f, Checks(f, r.path, d, k), r.path, FALSE, k, d)
    ELSE WriteOrSimulate(f, r.path, d, k, dry, fault)

\* create_nfo_file(plex_path, ids, item_type, root_path, dry_run)
CreateNfoFile(f, plex_path, d, k, root_path, dry, fault) ==
    CreateNfoFileAt(f, GetLocalPath(f, plex_path, root_path, k), d, k, dry, fault)

\* an exception can only be raised by a statement that is executed
FaultsOf(f, r, d, k, dry) ==
    {"none", "resolve"} \cup
    (IF ~dry /\ Checks(f, r.path, d, k) = "passed" THEN {"open", "write"} ELSE {})

\* ------------------------------------------- the inputs: names, trees, paths
Base       == <<"a", "b", "c", "d", "e", "f", "g">>
Upper      == <<"A", "b", "c", "d", "e", "f", "g">>
Short      == <<"a", "b", "c">>
Composed   == <<"n~">>
Decomposed == <<"n", "~">>
Lib        == <<"l", "i", "b">>
Med        == <<"m", "e", "d">>
MvDir      == <<"M", "v">>
LowMv      == <<"m", "v">>
Other      == <<"o">>
Fx         == <<"f", ".", "x">>
UpFx       == <<"F", ".", "x">>
Fy         == <<"f", ".", "y">>
Fnfo       == <<"f", ".", "n", "f", "o">>

\* Base followed by m more "a": its score against Base is 7 / (7 + m)
Longer(m) == Base \o [i \in 1..m |-> "a"]

OldContent == <<"old">>

RootDrive == IF isWindows THEN "Y:" ELSE ""

\* root_path as given on the command line, and the directory it names
RootArg  == [drive |-> RootDrive, comps |-> <<Lib, Dot>>]
Root     == [drive |-> RootDrive, comps |-> <<Lib>>]

DirNode(d, comps, w) ==
    [drive |-> d, comps |-> comps, dir |-> TRUE, writable |-> w, content |-> <<>>]
FileNode(d, comps, c) ==
    [drive |-> d, comps |-> comps, dir |-> FALSE, writable |-> TRUE, content |-> c]

RootNode == DirNode(RootDrive, <<Lib>>, TRUE)

\* what may lie under the root
UnderRoot(k) ==
    IF k = "tv"
    THEN {DirNode(RootDrive, <<Lib, Base>>, TRUE),
          DirNode(RootDrive, <<Lib, Longer(1)>>, TRUE),
          DirNode(RootDrive, <<Lib, Longer(MaxRep)>>, TRUE),
          DirNode(RootDrive, <<Lib, Upper>>, FALSE),
          DirNode(RootDrive, <<Lib, Short>>, TRUE),
          DirNode(RootDrive, <<Lib, Short, Base>>, TRUE),
          DirNode(RootDrive, <<Lib, Composed>>, TRUE),
          FileNode(RootDrive, <<Lib, Base, Tvshow>>, OldContent)}
    ELSE {DirNode(RootDrive, <<Lib, MvDir>>, TRUE),
          FileNode(RootDrive, <<Lib, MvDir, Fx>>, <<>>),
          FileNode(RootDrive, <<Lib, MvDir, UpFx>>, <<>>),
          FileNode(RootDrive, <<Lib, MvDir, Fnfo>>, OldContent),
          DirNode(RootDrive, <<Lib, Other>>, FALSE),
          FileNode(RootDrive, <<Lib, Other, Fy>>, <<>>),
          DirNode(RootDrive, <<Lib, Other, MvDir>>, TRUE),
          FileNode(RootDrive, <<Lib, Other, MvDir, Fx>>, <<>>)}

\* the recorded location, as it may exist on drive d outside the root
Outside(d, k) ==
    IF k = "tv"
    THEN {DirNode(d, <<Med>>, TRUE), DirNode(d, <<Med, Base>>, TRUE)}
    ELSE {DirNode(d, <<Med>>, TRUE), DirNode(d, <<Med, MvDir>>, TRUE),
          FileNode(d, <<Med, MvDir, Fx>>, <<>>)}

OutDrives == IF isWindows THEN {"C:", "Y:", UNC} ELSE {""}

\* every directory of a tree holds its nodes, and on Windows no two nodes
\* differ in case alone
WellFormed(f) ==
    /\ \A n \in f : Len(n.comps) > 1 => IsDir(f, Dirname(PathOf(n)))
    /\ \A n, m \in f : SamePath(PathOf(n), PathOf(m)) => n = m

Trees(k) ==
    {f \in {{RootNode} \cup under \cup out :
               under \in SUBSET UnderRoot(k),
               out \in {{}} \cup {Outside(d, k) : d \in OutDrives}} : WellFormed(f)}

\* the paths the catalog may have recorded
PlexPaths(k) ==
    LET leaf  == IF k = "tv" THEN {<<Med, Base>>, <<Med, DotDot, Med, Base>>, <<Med, Decomposed>>}
                 ELSE {<<Med, MvDir, Fx>>, <<Med, DotDot, Med, MvDir, Fx>>, <<Med, LowMv, Fx>>}
        plain == IF k = "tv" THEN <<Med, Base>> ELSE <<Med, MvDir, Fx>>
    IN  IF isWindows
        THEN {[drive |-> "C:", comps |-> c] : c \in leaf}
             \cup {[drive |-> d, comps |-> plain] : d \in {"y:", UNC}}
        ELSE {[drive |-> "", comps |-> c] : c \in leaf}

\* the identifier sets handed to create_nfo_file
ImdbOnly == [imdb |-> <<"tt", "1">>, tmdb |-> NoneId, tvdb |-> NoneId]

IdSamples ==
    {EmptyIds, ImdbOnly,
     [imdb |-> NoneId, tmdb |-> <<"1">>, tvdb |-> <<"1">>],
     [imdb |-> <<"tt", "1">>, tmdb |-> <<"1">>, tvdb |-> <<"1">>],
     [imdb |-> <<>>, tmdb |-> <<"1">>, tvdb |-> <<"1">>]}

\* the calls of create_nfo_file tried on a tree: every sample of ids, dry or
\* not, with the exceptions that can be raised; an exception while resolving
\* does not depend on the ids and is tried with one sample
CallSamples(f, r, k) ==
    {c \in [d : IdSamples, dry : BOOLEAN, fault : Faults] :
        /\ c.fault \in FaultsOf(f, r, c.d, k, c.dry)
        /\ c.fault = "resolve" => c.d = ImdbOnly}

\* ---------------------------------------------------------- idle parts
NoRes == [step |-> "none", path |-> NoPath, fuzzy |-> NoFuzzy]
NoNfo == [called |-> FALSE, fault |-> "none", changed |-> FALSE, ok |-> FALSE, why |-> "none",
          reached |-> FALSE, nfo_path |-> NoPath, content |-> NoContent]
NoLast == [seen |-> FALSE]

IdsIdle ==
    /\ gpc = "idle" /\ ids = EmptyIds /\ method = "primary" /\ nGuids = 0 /\ nFields = 0
    /\ primaryIds = EmptyIds /\ consulted = FALSE /\ firstSeen = EmptyIds /\ raised = FALSE

NfoIdle ==
    /\ npc = "idle" /\ plexPath = NoPath /\ inIds = EmptyIds /\ res = NoRes /\ nfo = NoNfo

ZeroStats == [success |-> 0, failed |-> 0, skipped |-> 0, primary |-> 0, secondary |-> 0]

LibIdle ==
    /\ pc = "idle" /\ handled = 0 /\ last = NoLast /\ stats = ZeroStats

\* ------------------------------------------- one call of the resolver / writer
InitNfo ==
    /\ IdsIdle /\ LibIdle
    /\ kind \in Kinds
    /\ isWindows \in BOOLEAN
    /\ listRev \in BOOLEAN
    /\ fs \in Trees(kind)
    /\ dry_run = FALSE
    /\ npc = "start"
    /\ plexPath \in PlexPaths(kind)
    /\ inIds = EmptyIds /\ res = NoRes /\ nfo = NoNfo

\* get_local_path(plexPath, root, kind), called on its own
Resolve ==
    /\ npc = "start"
    /\ res' = GetLocalPath(fs, plexPath, RootArg, kind)
    /\ npc' = "resolved"
    /\ UNCHANGED <<plexPath, inIds, nfo, idsVars, envVars, libVars>>

\* create_nfo_file(plexPath, d, kind, root, dry), with or without an exception
Create ==
    /\ npc = "start"
    /\ \E r \in {GetLocalPath(fs, plexPath, RootArg, kind)} :
         \E c \in CallSamples(fs, r, kind) :
           \E out \in {CreateNfoFileAt(fs, r, c.d, kind, c.dry, c.fault)} :
             /\ inIds' = c.d
             /\ dry_run' = c.dry
             /\ res' = r
             /\ nfo' = [called |-> TRUE, fault |-> c.fault, changed |-> out.fs # fs,
                        ok |-> out.ok, why |-> out.why, reached |-> out.reached,
                        nfo_path |-> out.nfo_path, content |-> out.content]
             /\ fs' = out.fs
    /\ npc' = "done"
    /\ UNCHANGED <<plexPath, kind, isWindows, listRev, idsVars, libVars>>

NextNfo == Resolve \/ Create

SpecNfo == InitNfo /\ [][NextNfo]_vars
\* ---------------------------------------------- one call of get_ids, stepped
InitIds ==
    /\ NfoIdle /\ LibIdle
    /\ kind \in Kinds
    /\ isWindows = FALSE /\ listRev = FALSE /\ fs = {} /\ dry_run = FALSE
    /\ gpc = "primary" /\ ids = EmptyIds /\ method = "primary" /\ nGuids = 0 /\ nFields = 0
    /\ primaryIds = EmptyIds /\ consulted = FALSE /\ firstSeen = EmptyIds /\ raised = FALSE

\* one pass of the loop over item.guids, for a guid whose id is a string
IdsScanGuid ==
    /\ gpc = "primary" /\ nGuids < MaxGuids
    /\ \E id \in AnnSet :
         /\ ids' = ScanGuid(ids, id, kind)
         /\ firstSeen' = LET s == SchemeOf(Lower(id), kind)
                         IN  IF s # "none" /\ firstSeen[s] = NoneId
                             THEN [firstSeen EXCEPT ![s] = ValueOf(Lower(id), s)]
                             ELSE firstSeen
    /\ nGuids' = nGuids + 1
    /\ UNCHANGED <<gpc, method, nFields, primaryIds, consulted, raised, envVars, nfoVars, libVars>>

\* a guid whose id cannot be lowered: the except clause returns what is there
IdsGuidRaises ==
    /\ gpc = "primary" /\ nGuids < MaxGuids
    /\ raised' = TRUE
    /\ primaryIds' = ids
    /\ gpc' = "done"
    /\ UNCHANGED <<ids, method, nGuids, nFields, consulted, firstSeen, envVars, nfoVars, libVars>>

\* the loop over item.guids is over: the test that chooses the secondary method
IdsEndPrimary ==
    /\ gpc = "primary"
    /\ primaryIds' = ids
    /\ IF NeedSecondary(ids, kind)
       THEN method' = "secondary" /\ gpc' = "secondary"
       ELSE method' = method /\ gpc' = "done"
    /\ UNCHANGED <<ids, nGuids, nFields, consulted, firstSeen, raised, envVars, nfoVars, libVars>>

\* one pass of the loop over item.fields, for a field whose value is a string
IdsScanField ==
    /\ gpc = "secondary" /\ nFields < MaxFields
    /\ \E f \in FieldSet : ids' = ScanField(ids, f, kind)
    /\ consulted' = TRUE
    /\ nFields' = nFields + 1
    /\ UNCHANGED <<gpc, method, nGuids, primaryIds, firstSeen, raised, envVars, nfoVars, libVars>>

\* a guid field whose value cannot be lowered
IdsFieldRaises ==
    /\ gpc = "secondary" /\ nFields < MaxFields
    /\ consulted' = TRUE
    /\ raised' = TRUE
    /\ gpc' = "done"
    /\ UNCHANGED <<ids, method, nGuids, nFields, primaryIds, firstSeen, envVars, nfoVars, libVars>>

\* the loop over item.fields is over
IdsReturn ==
    /\ gpc = "secondary"
    /\ gpc' = "done"
    /\ UNCHANGED <<ids, method, nGuids, nFields, primaryIds, consulted, firstSeen, raised, envVars, nfoVars, libVars>>

NextIds ==
    \/ IdsScanGuid \/ IdsGuidRaises \/ IdsEndPrimary
    \/ IdsScanField \/ IdsFieldRaises \/ IdsReturn

SpecIds == InitIds /\ [][NextIds]_vars

\* ------------------------------------------------------ process_library
MaxItems == 2     \* items in the library section

\* a faulty variant of HasId that tests the dict itself, which is never empty
HasIdOfDict(d, k) == TRUE

\* has_id, the test before create_nfo_file is called
HasId(d, k) ==
    Truthy(d.imdb) \/ (Truthy(d.tmdb) /\ k = "movie") \/ (Truthy(d.tvdb) /\ k = "tv")

\* ---- the items the catalog may hold
Guid(id) == [bad |-> FALSE, id |-> id]
BadGuid  == [bad |-> TRUE, id |-> <<>>]

Field(name, value) == [name |-> name, value |-> value, bad |-> FALSE]

Item(guids, fields) == [guids |-> guids, fields |-> fields]

\* what the items carry as annotations and raw fields
ItemSamples ==
    {Item(<<>>, <<>>),
     Item(<<Guid(<<"imdb://", "tt", "1">>)>>, <<>>),
     Item(<<Guid(<<"tmdb://", "1", "?">>)>>, <<>>),
     Item(<<Guid(<<"tvdb://", "1">>)>>, <<>>),
     Item(<<Guid(<<"IMDB://", "tt">>), Guid(<<"imdb://", "tt", "1">>)>>, <<>>),
     Item(<<Guid(<<"imdb://">>)>>, <<Field("guid", <<"tt", "1">>)>>),
     Item(<<>>, <<Field("guid", <<"tmdb://", "1">>)>>),
     Item(<<>>, <<Field("guid", <<"tvdb://", "1">>)>>),
     Item(<<>>, <<Field("summary", <<"tt", "1">>)>>),
     Item(<<BadGuid>>, <<Field("guid", <<"tt", "1">>)>>),
     Item(<<Guid(<<"imdb://", "tt", "1">>), BadGuid>>, <<>>),
     Item(<<>>, <<BadField>>)}

\* reading item.locations gives no location, a list whose first entry is used,
\* or raises
NoLocation     == [drive |-> "no location", comps |-> <<>>]
LocationRaises == [drive |-> "raises", comps |-> <<>>]

\* the smaller trees the batch loop is run on
SmallUnder(k) ==
    IF k = "tv"
    THEN {DirNode(RootDrive, <<Lib, Base>>, TRUE),
          DirNode(RootDrive, <<Lib, Longer(1)>>, TRUE),
          FileNode(RootDrive, <<Lib, Base, Tvshow>>, OldContent)}
    ELSE {DirNode(RootDrive, <<Lib, MvDir>>, TRUE),
          FileNode(RootDrive, <<Lib, MvDir, Fx>>, <<>>),
          DirNode(RootDrive, <<Lib, Other>>, FALSE),
          FileNode(RootDrive, <<Lib, Other, Fy>>, <<>>)}

LibTrees(k) ==
    {f \in {{RootNode} \cup under \cup out :
               under \in SUBSET SmallUnder(k),
               out \in {{}, Outside(IF isWindows THEN "C:" ELSE "", k)}} : WellFormed(f)}

\* the locations the items record
LibPaths(k) ==
    LET plain == IF k = "tv" THEN <<Med, Base>> ELSE <<Med, MvDir, Fx>>
        dotty == IF k = "tv" THEN <<Med, DotDot, Med, Base>> ELSE <<Med, DotDot, Med, MvDir, Fx>>
    IN  IF isWindows
        THEN {[drive |-> d, comps |-> plain] : d \in {"C:", "y:", UNC}}
        ELSE {[drive |-> "", comps |-> c] : c \in {plain, dotty}}

Init ==
    /\ IdsIdle /\ NfoIdle
    /\ kind \in Kinds
    /\ isWindows \in BOOLEAN
    /\ listRev \in BOOLEAN
    /\ fs \in LibTrees(kind)
    /\ dry_run \in BOOLEAN
    /\ pc = "loop" /\ stats = ZeroStats /\ handled = 0 /\ last = NoLast

\* a faulty variant of Bump that forgets to count the skipped items
BumpButSkipped(st, counter) ==
    IF counter = "skipped" THEN st ELSE [st EXCEPT ![counter] = @ + 1]

\* counter += 1
Bump(st, counter) == [st EXCEPT ![counter] = @ + 1]

\* an item has an identifier to recognise: an annotation of a scheme that
\* applies to the kind, or a raw guid field that one of the patterns matches
Applicable(k) == {"imdb://", IF k = "movie" THEN "tmdb://" ELSE "tvdb://"}

Recognizable(guids, fields, k) ==
    \/ \E i \in DOMAIN guids :
          ~guids[i].bad /\ \E t \in Applicable(k) : Contains(Lower(guids[i].id), t)
    \/ \E i \in DOMAIN fields :
          /\ fields[i].name = "guid" /\ ~fields[i].bad
          /\ \E j \in 1..(Len(fields[i].value) - 1) :
                /\ Lower(fields[i].value)[j] \in ({"tt"} \cup Applicable(k)) \ {"imdb://"}
                /\ fields[i].value[j + 1] \in Digits

\* what get_ids returns for each of the items, with whether the item had
\* anything to recognise
ExtractedOf(k) ==
    {[g |-> GetIds(it, k), noid |-> ~Recognizable(it.guids, it.fields, k)] : it \in ItemSamples}

ExtractedMovie == ExtractedOf("movie")
ExtractedTv    == ExtractedOf("tv")
Extracted(k)   == IF k = "movie" THEN ExtractedMovie ELSE ExtractedTv

\* what the history keeps of one pass of the loop
Handled(loc, noid, g, invoked, out, r, outcome, changed, realReached) ==
    [seen |-> TRUE, loc |-> loc, noid |-> noid, ids |-> g.ids,
     raised |-> g.raised, invoked |-> invoked, fault |-> out.fault, ok |-> out.ok,
     step |-> r.step, local |-> r.path, outcome |-> outcome,
     changed |-> changed, realReached |-> realReached]

NoCall == [fault |-> "none", ok |-> FALSE]
NoIds  == [ids |-> EmptyIds, method |-> "none", raised |-> FALSE]

\* one pass of the for loop over the items, for an item whose locations raise:
\* the exception leaves the loop and the handler around it exits the process
ItemRaises ==
    /\ pc = "loop" /\ handled < MaxItems
    /\ \E c \in Extracted(kind) :
         last' = Handled(LocationRaises, c.noid, NoIds, FALSE,
                         [NoCall EXCEPT !.fault = "locations"], NoRes, "aborted", FALSE, FALSE)
    /\ pc' = "aborted"
    /\ handled' = handled + 1
    /\ UNCHANGED <<stats, idsVars, envVars, nfoVars>>

\* one pass for an item without a location
ItemSkipped ==
    /\ pc = "loop" /\ handled < MaxItems
    /\ \E c \in Extracted(kind) :
         last' = Handled(NoLocation, c.noid, NoIds, FALSE,
                         NoCall, NoRes, "skipped", FALSE, FALSE)
    /\ stats' = Bump(stats, "skipped")
    /\ handled' = handled + 1
    /\ UNCHANGED <<pc, idsVars, envVars, nfoVars>>

\* one pass for an item with a location and no usable identifier
ItemWithoutId ==
    /\ pc = "loop" /\ handled < MaxItems
    /\ \E c \in Extracted(kind), loc \in LibPaths(kind) :
         /\ ~HasId(c.g.ids, kind)
         /\ last' = Handled(loc, c.noid, c.g, FALSE, NoCall, NoRes, "failed", FALSE, FALSE)
         /\ stats' = Bump(Bump(stats, c.g.method), "failed")
    /\ handled' = handled + 1
    /\ UNCHANGED <<pc, idsVars, envVars, nfoVars>>

\* one pass for an item with a location and an identifier: create_nfo_file runs
ItemWithId ==
    /\ pc = "loop" /\ handled < MaxItems
    /\ \E loc \in LibPaths(kind) :
         \E r \in {GetLocalPath(fs, loc, RootArg, kind)} :
           \E c \in Extracted(kind) :
             /\ HasId(c.g.ids, kind)
             /\ \E real \in {Checks(fs, r.path, c.g.ids, kind) = "passed"},
                   fault \in FaultsOf(fs, r, c.g.ids, kind, dry_run) :
                  \E out \in {CreateNfoFileAt(fs, r, c.g.ids, kind, dry_run, fault)} :
                    /\ last' = Handled(loc, c.noid, c.g, TRUE,
                                       [fault |-> fault, ok |-> out.ok], r,
                                       IF out.ok THEN "success" ELSE "failed", out.fs # fs, real)
                    /\ stats' = Bump(Bump(stats, c.g.method), IF out.ok THEN "success" ELSE "failed")
                    /\ fs' = out.fs
    /\ handled' = handled + 1
    /\ UNCHANGED <<pc, kind, isWindows, listRev, dry_run, idsVars, nfoVars>>

\* the list is exhausted: the results are logged; no pass is under way
Finish ==
    /\ pc = "loop"
    /\ pc' = "done"
    /\ last' = NoLast
    /\ UNCHANGED <<stats, handled, idsVars, envVars, nfoVars>>

Next == ItemRaises \/ ItemSkipped \/ ItemWithoutId \/ ItemWithId \/ Finish

Spec == Init /\ [][Next]_vars

\* =================================================================== claims

\* the identifier of the scheme that belongs to the kind
KindId(d, k) == IF k = "movie" THEN d.tmdb ELSE d.tvdb

C2_FirstAnnotationWins ==
    gpc # "primary" =>
        \A s \in Schemes : firstSeen[s] # NoneId => primaryIds[s] = firstSeen[s]

\* C3, as stated: an item with no recognizable identifier gets an all-absent
\* result from get_ids, create_nfo_file is never called for it, it is counted
\* as failed and no file is written.  (Items whose locations cannot be read
\* are left out here: C6 is about them.)
C3_NoIdCountedFailed ==
    (last.seen /\ last.noid /\ last.loc # LocationRaises) =>
        /\ last.ids = EmptyIds
        /\ ~last.invoked
        /\ ~last.changed
        /\ last.outcome = "failed"

\* C3, amended: for an item with no recognizable identifier get_ids (when it
\* is called) returns all three absent, create_nfo_file is never called and no
\* file is written; the item is counted as failed when it has a location and
\* as skipped when it has none.
C3_NoIdNeverWritten ==
    (last.seen /\ last.noid) =>
        /\ last.ids = EmptyIds
        /\ ~last.invoked
        /\ ~last.changed
        /\ last.loc \notin {NoLocation, LocationRaises} => last.outcome = "failed"
        /\ last.loc = NoLocation => last.outcome = "skipped"

\* the second item of a run has a location and no identifier, and fails
C3_Witness ==
    /\ last.seen /\ last.noid /\ handled = 2
    /\ last.loc \notin {NoLocation, LocationRaises}
    /\ last.outcome = "failed" /\ stats.failed >= 1

\* the file a real, successful call has written
Written == {n \in fs : ~n.dir /\ SamePath(PathOf(n), nfo.nfo_path)}

\* C4: the content written is the IMDb URL if imdb is present, else the URL
\* of the kind's own identifier (TVDB for tv, TMDb for movie); with neither
\* present the call fails and writes nothing.
C4_ContentPriority ==
    nfo.called =>
        /\ (nfo.ok /\ ~dry_run) =>
              /\ Written # {}
              /\ \A n \in Written :
                    n.content =
                       IF Truthy(inIds.imdb)
                       THEN <<"https://www.imdb.com/title/">> \o inIds.imdb \o <<"/">>
                       ELSE IF kind = "tv"
                       THEN <<"https://thetvdb.com/series/">> \o inIds.tvdb
                       ELSE <<"https://www.themoviedb.org/movie/">> \o inIds.tmdb
              /\ Truthy(inIds.imdb) \/ Truthy(KindId(inIds, kind))
        /\ (~Truthy(inIds.imdb) /\ ~Truthy(KindId(inIds, kind))) => (~nfo.ok /\ ~nfo.changed)

\* a show without imdb got its TVDB link written
C4_Witness ==
    /\ nfo.called /\ nfo.ok /\ ~dry_run /\ kind = "tv" /\ ~Truthy(inIds.imdb)
    /\ \E n \in Written : n.content = <<"https://thetvdb.com/series/", "1">>

\* C5: in a dry run create_nfo_file returns success exactly when a real run
\* on the same arguments passes every check and reaches the write, and no pass
\* of the loop changes the filesystem.
C5_DryRunChangesNothing ==
    /\ [](dry_run /\ last.seen =>
            /\ ~last.changed
            /\ (last.invoked /\ last.fault = "none") => (last.ok <=> last.realReached))
    /\ [][dry_run => fs' = fs]_vars

\* the second item of a dry run passed every check: success, nothing written
C5_Witness ==
    /\ dry_run /\ handled = 2 /\ last.seen /\ last.invoked
    /\ last.ok /\ last.realReached /\ stats.success = 2

\* C6: a fault raised while one item is handled is counted as that item's
\* failure and the loop goes on to the next item.
C6_FaultNeverEndsRun ==
    (last.seen /\ last.fault # "none") => (pc = "loop" /\ last.outcome = "failed")

\* the show name the partial match works with, and one scored candidate's name
ShowName    == FuzzyName(Nfc(Basename(NormalizePath(plexPath))))
CandName(e) == FuzzyName(Basename(e.path))

Shared(e) == Cardinality(CharSet(ShowName) \cap CharSet(CandName(e)))

\* C7, as stated: the score is the size of the intersection of the two
\* character sets over the number of distinct characters of the longer name.
C7_ScoreOverSetSize ==
    \A i \in DOMAIN res.fuzzy.scored :
        LET e == res.fuzzy.scored[i]
            larger == IF Len(ShowName) >= Len(CandName(e))
                      THEN Cardinality(CharSet(ShowName))
                      ELSE Cardinality(CharSet(CandName(e)))
        IN  e.score.num * larger = Shared(e) * e.score.den

\* C7, amended: the score is the size of the intersection of the two character
\* sets over the length of the longer name, repeated characters counted.
C7_ScoreOverLength ==
    \A i \in DOMAIN res.fuzzy.scored :
        LET e == res.fuzzy.scored[i]
            longer == IF Len(ShowName) >= Len(CandName(e)) THEN Len(ShowName)
                      ELSE Len(CandName(e))
        IN  e.score.num * longer = Shared(e) * e.score.den

\* a candidate with repeated characters was scored: 7 shared over a length of 10
C7_Witness ==
    \E i \in DOMAIN res.fuzzy.scored :
        LET e == res.fuzzy.scored[i]
        IN  /\ Len(CandName(e)) = 10 /\ Cardinality(CharSet(CandName(e))) = 7
            /\ e.score.num = 7 /\ e.score.den = 10

\* C8: when the partial match runs, the highest-scoring candidate is returned
\* if and only if its score is strictly greater than 0.7.
C8_StrictThreshold ==
    res.fuzzy.tried =>
        LET sc == res.fuzzy.scored
        IN  /\ res.step = "fuzzy" <=> \E i \in DOMAIN sc : 10 * sc[i].score.num > 7 * sc[i].score.den
            /\ res.step = "fuzzy" =>
                  \E i \in DOMAIN sc :
                      /\ sc[i].path = res.path
                      /\ \A j \in DOMAIN sc :
                            sc[j].score.num * sc[i].score.den <= sc[i].score.num * sc[j].score.den

\* the best candidate scored exactly 7/10 and the step gave nothing
C8_Witness ==
    /\ res.fuzzy.tried /\ res.step \in {"lastresort", "unresolved"}
    /\ \E i \in DOMAIN res.fuzzy.scored :
          res.fuzzy.scored[i].score.num = 7 /\ res.fuzzy.scored[i].score.den = 10
    /\ \A i \in DOMAIN res.fuzzy.scored :
          10 * res.fuzzy.scored[i].score.num <= 7 * res.fuzzy.scored[i].score.den

\* C9, as stated: when no step matches, get_local_path returns the recorded
\* path, the existence check fails, the item is counted as failed and no file
\* is written.
C9_UnresolvedAlwaysFails ==
    (last.seen /\ last.invoked /\ last.fault = "none" /\ last.step = "unresolved") =>
        /\ last.local = NormalizePath(last.loc)
        /\ ~last.ok /\ last.outcome = "failed" /\ ~last.changed

\* C9, amended: when no step matches, get_local_path returns the (normalized)
\* recorded path; if that path does not exist on the host, create_nfo_file
\* fails, the item is counted as failed and no file is written.
C9_UnresolvedMissingFails ==
    (last.seen /\ last.invoked /\ last.step = "unresolved") =>
        /\ last.local = NormalizePath(last.loc)
        /\ ~Exists(fs, last.local) => (~last.ok /\ last.outcome = "failed" /\ ~last.changed)

\* an item with an identifier whose recorded path is found nowhere
C9_Witness ==
    /\ last.seen /\ last.invoked /\ last.step = "unresolved" /\ last.fault = "none"
    /\ ~Exists(fs, last.local) /\ last.outcome = "failed" /\ stats.failed >= 1

\* C10: get_local_path returns the result of the earliest step that yields a
\* path, in the order network path, drive mapping, structured search, file
\* name search (movies) or partial match (shows), drive substitution,
\* unresolved; the file name search never runs for a show, the partial match
\* never for a movie, and the partial match runs only after the steps before it
\* yielded nothing.
C10_EarliestStepWins ==
    npc = "resolved" =>
        LET plex == NormalizePath(plexPath)
            U == StepUNC(fs, plex)
            D == StepDrive(fs, plex, Root)
            S == StepSearch(fs, plex, Root, kind)
            K == IF kind = "movie" THEN StepFallback(fs, plex, Root)
                 ELSE StepFuzzy(Fuzzy(fs, plex, Root))
            L == StepLast(fs, plex, Root)
            none(seq) == \A i \in DOMAIN seq : seq[i] = NoPath
        IN  /\ res.step \in {"unc", "drive", "search", "fallback", "fuzzy", "lastresort", "unresolved"}
            /\ res.step = "unc" => U # NoPath /\ res.path = U
            /\ res.step = "drive" => none(<<U>>) /\ D # NoPath /\ res.path = D
            /\ res.step = "search" => none(<<U, D>>) /\ S # NoPath /\ res.path = S
            /\ res.step = "fallback" =>
                  kind = "movie" /\ none(<<U, D, S>>) /\ K # NoPath /\ res.path = K
            /\ res.step = "fuzzy" =>
                  kind = "tv" /\ none(<<U, D, S>>) /\ K # NoPath /\ res.path = K
            /\ res.step = "lastresort" => none(<<U, D, S, K>>) /\ L # NoPath /\ res.path = L
            /\ res.step = "unresolved" => none(<<U, D, S, K, L>>) /\ res.path = plex
            /\ res.fuzzy.tried => kind = "tv" /\ none(<<U, D, S>>)

\* every step before the drive substitution yielded nothing, and it matched
C10_Witness ==
    npc = "resolved" /\ res.step = "lastresort" /\ res.fuzzy.tried

\* the passes of the loop that ran to their end: a pass cut short by an
\* exception (pc = "aborted") has not handled its item
Completed == IF pc = "aborted" THEN handled - 1 ELSE handled

\* the counters of st among names that are one more in st2, the rest of names
\* being equal
OneMore(st, st2, names) ==
    \E c \in names :
        /\ st2[c] = st[c] + 1
        /\ \A o \in names \ {c} : st2[o] = st[o]

\* C11: after any number of items handled, success + failed + skipped equals
\* the number of items handled and primary + secondary equals that number
\* minus skipped; each item handled adds one to exactly one of success, failed
\* and skipped, and, unless it is skipped, to exactly one of primary and
\* secondary.
C11_CountersAddUp ==
    /\ [](/\ stats.success + stats.failed + stats.skipped = Completed
          /\ stats.primary + stats.secondary = Completed - stats.skipped)
    /\ [][(handled' = handled + 1 /\ pc' = "loop") =>
            /\ OneMore(stats, stats', {"success", "failed", "skipped"})
            /\ IF stats'.skipped = stats.skipped
               THEN OneMore(stats, stats', {"primary", "secondary"})
               ELSE stats'.primary = stats.primary /\ stats'.secondary = stats.secondary]_vars

\* two items handled: one skipped, one written after the raw guid field gave
\* its identifier
C11_Witness ==
    /\ pc = "loop" /\ handled = 2
    /\ stats.skipped = 1 /\ stats.success = 1 /\ stats.secondary = 1
====
